---- MODULE Spec2Model ----
(***************************************************************************)
(* AgroPrediccion backend: the demand store (Firestore collection          *)
(* 'demandas'), the HTTP handlers of app/routes.py and the forecasting      *)
(* engine DemandPredictor in its two variants (services/predictor.py,       *)
(* Prophet; services/predictor_sarima.py, SARIMA).                          *)
(*                                                                         *)
(* Numbers.  Demands and raw model outputs are reals in the program; here  *)
(* they are fixed-point integers in thousandths ("milli").  Values the      *)
(* program rounds to two decimals are integers in hundredths ("centi").     *)
(* Coefficients of variation and relative errors are in units of 1e-5, so   *)
(* that 100 * (1 - v) in milli is 100000 - v.                               *)
(*                                                                         *)
(* Libraries.  What Prophet, statsmodels, pandas' std()/mean() and          *)
(* sklearn's mean_absolute_error compute is not part of the repository:    *)
(* each call into them yields an outcome drawn from a small set (fitted     *)
(* parameters, a coefficient of variation, an error, or an exception).      *)
(* What the repository does with the outcome is modelled as coded.          *)
(***************************************************************************)
EXTENDS Integers, Sequences, FiniteSets, Bags, TLC

\* Number of /upload requests served in one run.
MaxUploads == 2

\* DemandPredictor.train_and_predict: `len(df) < 12`.
MIN_DATA_POINTS == 12
\* Config.FORECAST_PERIODS, the default of ?periods=.
FORECAST_PERIODS == 3
\* predict_product: `periods < 1 or periods > 12`.
MinPeriods == 1
MaxPeriods == 12

Max(a, b) == IF a >= b THEN a ELSE b
Min(a, b) == IF a <= b THEN a ELSE b

(***************************************************************************)
(* Calendar months.  pd.to_datetime('<anio>-<mes>-01') is the first day of  *)
(* a month: its value is the month's index anio * 12 + (mes - 1); .year    *)
(* and .month convert back.  The parse raises unless 1 <= mes <= 12.        *)
(***************************************************************************)
ValidMonth(mes) == mes >= 1 /\ mes <= 12
ToDatetime(anio, mes) == anio * 12 + (mes - 1)
YearOf(ds) == ds \div 12
MonthOf(ds) == (ds % 12) + 1
\* strftime('%Y-%m'): the year and the month, the month on two digits.
Strftime(ds) == <<YearOf(ds), MonthOf(ds) \div 10, MonthOf(ds) % 10>>

(***************************************************************************)
(* round(x, 2) on a value in milli, giving centi: to the nearest, ties to   *)
(* the even neighbour.                                                      *)
(***************************************************************************)
Round2(x) ==
    LET q == x \div 10
        r == x % 10
    IN  IF r < 5 THEN q
        ELSE IF r > 5 THEN q + 1
        ELSE IF q % 2 = 0 THEN q ELSE q + 1

(***************************************************************************)
(* Stable ascending sort of a sequence of records by their integer field k  *)
(* (list.sort / sort_values / sort_index).                                  *)
(***************************************************************************)
\* rank[i] is the place of s[i] in the sorted list: after every element of
\* smaller key and after the elements of equal key that came before it.
SortByKDescending(s) ==
    LET n    == Len(s)
        rank == SubSeq([i \in 1..n |->
                          Cardinality({j \in 1..n : s[j].k > s[i].k \/ (s[j].k = s[i].k /\ j <= i)})],
                       1, n)
    IN  SubSeq([r \in 1..n |-> s[CHOOSE i \in 1..n : rank[i] = r]], 1, n)

SortByK(s) ==
    LET n    == Len(s)
        rank == SubSeq([i \in 1..n |->
                          Cardinality({j \in 1..n : s[j].k < s[i].k \/ (s[j].k = s[i].k /\ j <= i)})],
                       1, n)
    IN  SubSeq([r \in 1..n |-> s[CHOOSE i \in 1..n : rank[i] = r]], 1, n)

RECURSIVE SeqOfSet(_)
SeqOfSet(S) ==
    IF S = {} THEN <<>>
    ELSE LET x == CHOOSE y \in S : TRUE
         IN  <<x>> \o SeqOfSet(S \ {x})

RECURSIVE Repeat(_, _)
Repeat(x, n) == IF n <= 0 THEN <<>> ELSE <<x>> \o Repeat(x, n - 1)

RECURSIVE Flatten(_)
Flatten(ss) == IF ss = <<>> THEN <<>> ELSE Head(ss) \o Flatten(Tail(ss))

RECURSIVE SumY(_)
SumY(s) == IF s = <<>> THEN 0 ELSE Head(s).y + SumY(Tail(s))

MaxOf(S) == CHOOSE x \in S : \A y \in S : y <= x

(***************************************************************************)
(* Inputs.  Uploaded files (the rows /upload keeps after cleaning), product *)
(* names, ?periods= values and library outcomes.                            *)
(***************************************************************************)
Products == <<"ARROZ", "MAIZ">>

Row(p, a, m, d) == [producto |-> p, anio |-> a, mes |-> m, demanda |-> d]

\* ARROZ, 2020-01 .. 2020-11: eleven months.
FileArroz11 == {Row("ARROZ", 2020, m, 20004 + 1000 * (m - 1)) : m \in 1..11}
\* ARROZ, 2020-11 again, another demand.
FileArrozNovAgain == {Row("ARROZ", 2020, 11, 9995)}
\* MAIZ, 2019-03 .. 2020-02: twelve months, no demand at all.
RowsMaiz12 == {Row("MAIZ", 2019, m, 0) : m \in 3..12} \cup {Row("MAIZ", 2020, m, 0) : m \in 1..2}
\* Both products in one file, twelve months each (ARROZ: 2020-01 .. 2020-12,
\* of mean 25.000).
FileBoth12 == FileArroz11 \cup {Row("ARROZ", 2020, 12, 24956)} \cup RowsMaiz12
\* ARROZ with MES = 13: /upload checks that MES is a number, not its range.
FileArrozBadMonth == {Row("ARROZ", 2020, 13, 1000)}

Files == {FileArroz11, FileArrozNovAgain, FileBoth12, FileArrozBadMonth}

\* ?periods= as parsed by request.args.get(..., type=int).
PeriodsInputs == {-1, 0, 1, FORECAST_PERIODS, 12, 13}

\* Fitted parameters: the point forecast i months after the last fitted
\* month is base + slope * i, its interval is +- width (all in milli).
RawParams ==
    { [base |-> 44, slope |-> -3000, width |-> 1009],
      [base |-> -5, slope |-> 0,     width |-> 9] }

Raise == [tag |-> "raise"]
FitOutcomes == {Raise} \cup {[tag |-> "ok", params |-> p] : p \in RawParams}
PredictOutcomes == {Raise, [tag |-> "ok"]}

\* historical_df['y'].std() / historical_df['y'].mean(): a value in 1e-5,
\* nan (0.0 / 0.0), or an exception out of pandas.
Variabilities == {-23000, 29996, 30004, 59996, 60000}
ScoreOutcomesProphet ==
    {Raise, [tag |-> "nan"]} \cup {[tag |-> "ok", variability |-> v] : v \in Variabilities}

\* mean_absolute_error(ts[1:], predictions[1:]) in milli, or an exception.
Maes == {0, 7499, 14999, 30000}
ScoreOutcomesSarima == {Raise} \cup {[tag |-> "ok", mae |-> e] : e \in Maes}

(***************************************************************************)
(* FirebaseService: the collection is a bag of documents.                   *)
(***************************************************************************)
SaveDemandData(db, data) == db (+) SetToBag(data)

DeleteAllData(db) == EmptyBag

SortedBy(s, key) ==
    LET tagged == SubSeq([i \in 1..Len(s) |-> [k |-> key[i], v |-> s[i]]], 1, Len(s))
        sorted == SortByK(tagged)
    IN  [i \in 1..Len(s) |-> sorted[i].v]

\* stream() yields every copy of every matching document; the list is then
\* sorted by (anio, mes).
GetProductData(db, producto) ==
    LET docs == SeqOfSet({r \in BagToSet(db) : r.producto = producto})
        data == Flatten([i \in 1..Len(docs) |-> Repeat(docs[i], CopiesIn(docs[i], db))])
    IN  SortedBy(data, [i \in 1..Len(data) |-> data[i].anio * 100 + data[i].mes])

\* sorted(list(set of 'producto')).
GetAllProducts(db) ==
    SelectSeq(Products, LAMBDA p : \E r \in BagToSet(db) : r.producto = p)

(***************************************************************************)
(* DemandPredictor.prepare_data (both variants): None for no data, an       *)
(* exception out of pd.to_datetime for a month outside 1..12, else the rows *)
(* (ds, y) sorted by ds.                                                    *)
(***************************************************************************)
PrepareDataUnsorted(data) ==
    IF data = <<>> THEN [tag |-> "none", rows |-> <<>>]
    ELSE IF \E i \in 1..Len(data) : ~ValidMonth(data[i].mes)
         THEN [tag |-> "raise", rows |-> <<>>]
    ELSE [tag |-> "ok",
          rows |-> [i \in 1..Len(data) |->
                      [ds |-> ToDatetime(data[i].anio, data[i].mes), y |-> data[i].demanda]]]

PrepareDataKeepOrder(data) == PrepareDataUnsorted(data)

\* One row per month, the first of the input, sorted by date.
PrepareDataDropDuplicates(data) ==
    LET u     == PrepareDataUnsorted(data)
        n     == Len(u.rows)
        first == {i \in 1..n : \A j \in 1..(i - 1) : u.rows[j].ds # u.rows[i].ds}
        kept  == SeqOfSet({u.rows[i] : i \in first})
    IN  [u EXCEPT !.rows = SortedBy(kept, [i \in 1..Len(kept) |-> kept[i].ds])]

\* prepare_data: the rows sorted by date (sort_values / sort_index).
PrepareData(data) ==
    LET u == PrepareDataUnsorted(data)
    IN  [u EXCEPT !.rows = SortedBy(u.rows, [i \in 1..Len(u.rows) |-> u.rows[i].ds])]

(***************************************************************************)
(* Python slices and pandas helpers.                                        *)
(***************************************************************************)
\* s[:n]
PySliceTo(s, n) ==
    IF n >= 0 THEN SubSeq(s, 1, Min(n, Len(s)))
    ELSE SubSeq(s, 1, Max(0, Len(s) + n))

\* DataFrame.tail(n): nothing for 0, the last n rows for n > 0, and all but
\* the first -n rows for n < 0.
PyTail(s, n) ==
    IF n = 0 THEN <<>>
    ELSE IF n > 0 THEN SubSeq(s, Max(1, Len(s) - n + 1), Len(s))
    ELSE SubSeq(s, Min(Len(s), -n) + 1, Len(s))

\* pd.date_range(start, periods=n, freq='MS') from a month start.
DateRange(start, n) == [i \in 1..Max(0, n) |-> start + (i - 1)]

\* Series.unique() then sort_values().
UniqueSorted(dates) ==
    LET S == {dates[i] : i \in 1..Len(dates)}
        u == SeqOfSet(S)
    IN  SortedBy(u, u)

(***************************************************************************)
(* The model object held in DemandPredictor.model.  It is only ever reached *)
(* through that attribute, so the attribute's value stands for the object:  *)
(* owner is the call that constructed it (0: none), history the rows it was *)
(* fitted on (Prophet) or constructed with (SARIMAX).                       *)
(***************************************************************************)
NoParams == [base |-> 0, slope |-> 0, width |-> 0]
NoModel == [kind |-> "none", owner |-> 0, fitted |-> FALSE, history |-> <<>>, params |-> NoParams]

\* Prophet(seasonality_mode='multiplicative', ...): a new, unfitted object.
ProphetNew(owner) == [NoModel EXCEPT !.kind = "prophet", !.owner = owner]

\* SARIMAX(ts, order=..., seasonal_order=...): a new object bound to ts.
SarimaxNew(owner, ts) == [NoModel EXCEPT !.kind = "sarimax", !.owner = owner, !.history = ts]

Ok(v) == [exc |-> "", val |-> v]
Exc(e) == [exc |-> e, val |-> <<>>]

LastDs(rows) == MaxOf({rows[i].ds : i \in 1..Len(rows)})
LastY(rows) == rows[Len(rows)].y

\* Prophet.fit(df): an object is fitted once; the fit may raise.
ProphetFit(m, df, out) ==
    IF m.kind # "prophet" THEN Exc("'NoneType' object has no attribute 'fit'")
    ELSE IF m.fitted THEN Exc("Prophet object can only be fit once. Instantiate a new object.")
    ELSE IF out.tag # "ok" THEN Exc("fit failed")
    ELSE Ok([m EXCEPT !.fitted = TRUE, !.history = df, !.params = out.params])

\* Prophet.make_future_dataframe(periods, freq='MS'): the fitted months,
\* then the months after the last of them.
ProphetMakeFutureDataframe(m, periods) ==
    IF ~m.fitted THEN Exc("Model has not been fit.")
    ELSE LET hist  == UniqueSorted([i \in 1..Len(m.history) |-> m.history[i].ds])
             last  == LastDs(m.history)
             range == DateRange(last, periods + 1)
             after == SelectSeq(range, LAMBDA d : d > last)
         IN  Ok(hist \o PySliceTo(after, periods))

\* The model's raw output for month ds: point estimate and interval.
RawRow(m, ds) ==
    LET yhat == LastY(m.history) + m.params.base + m.params.slope * (ds - LastDs(m.history))
    IN  [ds |-> ds, yhat |-> yhat,
         yhat_lower |-> yhat - m.params.width, yhat_upper |-> yhat + m.params.width]

\* Prophet.predict(future).
ProphetPredict(m, future, out) ==
    IF ~m.fitted THEN Exc("Model has not been fit.")
    ELSE IF out.tag # "ok" THEN Exc("predict failed")
    ELSE Ok([i \in 1..Len(future) |-> RawRow(m, future[i])])

\* SARIMAX.fit(disp=False): the results object of the model it is called on.
SarimaxFit(m, out) ==
    IF m.kind # "sarimax" THEN Exc("'NoneType' object has no attribute 'fit'")
    ELSE IF out.tag # "ok" THEN Exc("fit failed")
    ELSE Ok([m EXCEPT !.fitted = TRUE, !.params = out.params])

\* model_fit.forecast(steps) and get_forecast(steps).conf_int(), labelled
\* with pd.date_range(ts.index[-1] + 1 month, periods, 'MS').
SarimaxForecast(fit, ts, periods) ==
    IF periods < 1 THEN Exc("Prediction must have end after start.")
    ELSE LET dates == DateRange(ts[Len(ts)].ds + 1, periods)
         IN  Ok([i \in 1..Len(dates) |->
                   [RawRow(fit, LastDs(fit.history) + i) EXCEPT !.ds = dates[i]]])

(***************************************************************************)
(* train_and_predict: formatting, scoring and the returned values.          *)
(***************************************************************************)
ForecastPointUnfloored(row) ==
    [fecha |-> Strftime(row.ds), anio |-> YearOf(row.ds), mes |-> MonthOf(row.ds),
     prediccion |-> Round2(row.yhat),
     limite_inferior |-> Round2(row.yhat_lower),
     limite_superior |-> Round2(Max(0, row.yhat_upper))]

Abs(x) == IF x < 0 THEN -x ELSE x

ForecastPointAbs(row) ==
    [fecha |-> Strftime(row.ds), anio |-> YearOf(row.ds), mes |-> MonthOf(row.ds),
     prediccion |-> Round2(Abs(row.yhat)),
     limite_inferior |-> Round2(Abs(row.yhat_lower)),
     limite_superior |-> Round2(Abs(row.yhat_upper))]

\* One entry of 'predictions': round(max(0, x), 2) of each raw value.
ForecastPoint(row) ==
    [fecha |-> Strftime(row.ds), anio |-> YearOf(row.ds), mes |-> MonthOf(row.ds),
     prediccion |-> Round2(Max(0, row.yhat)),
     limite_inferior |-> Round2(Max(0, row.yhat_lower)),
     limite_superior |-> Round2(Max(0, row.yhat_upper))]

FormatResults(rows) == [i \in 1..Len(rows) |-> ForecastPoint(rows[i])]

\* _format_historical.
FormatHistorical(df) ==
    [i \in 1..Len(df) |->
       [fecha |-> Strftime(df[i].ds), anio |-> YearOf(df[i].ds), mes |-> MonthOf(df[i].ds),
        demanda |-> Round2(df[i].y)]]

\* "Alta" if confidence > 70 else "Media" if confidence > 40 else "Baja",
\* on the confidence before rounding (milli).
Level(confidence) ==
    IF confidence > 70000 THEN "Alta" ELSE IF confidence > 40000 THEN "Media" ELSE "Baja"

\* max(0, min(100, x)); Python's min(100, nan) is 100.
Clamp(x) == Max(0, Min(100000, x))

\* predictor.py _calculate_confidence: no handler of its own.
CalculateConfidenceProphet(out) ==
    IF out.tag = "raise" THEN Exc("scoring failed")
    ELSE LET confidence == IF out.tag = "nan" THEN Max(0, 100000)
                           ELSE Clamp(100000 - out.variability)
         IN  Ok([score |-> Round2(confidence), level |-> Level(confidence)])

DefaultConfidence == [score |-> 5000, level |-> "Media", mae |-> 0]

\* predictor_sarima.py _calculate_confidence: any exception gives the
\* default.
CalculateConfidenceSarima(ts, out) ==
    IF out.tag = "raise" THEN Ok(DefaultConfidence)
    ELSE LET mean_demand    == SumY(ts) \div Len(ts)
             relative_error == IF mean_demand > 0
                               THEN (out.mae * 10000) \div Max(1, mean_demand \div 10)
                               ELSE 100000
             confidence     == Clamp(100000 - relative_error)
         IN  Ok([score |-> Round2(confidence), level |-> Level(confidence),
                 mae |-> Round2(out.mae)])

InsufficientMsg == <<"Se requieren al menos 12 meses de datos historicos">>

Failure(msg) == [success |-> FALSE, error |-> msg]

HandleExceptionReraise(e) == [raised |-> TRUE, error |-> <<e>>]

\* except Exception as e: return {"success": False, "error": f"Error en prediccion: {e}"}
HandleException(e) == Failure(<<"Error en prediccion: ", e>>)

Success(results, df, confidence) ==
    [success |-> TRUE, predictions |-> results, historical |-> FormatHistorical(df),
     confidence |-> confidence, total_data_points |-> Len(df)]

GateAtMost(df) == df.tag = "none" \/ Len(df.rows) <= MIN_DATA_POINTS

\* `df is None or len(df) < 12`
Gate(df) == df.tag = "none" \/ Len(df.rows) < MIN_DATA_POINTS

Undrawn == [tag |-> "undrawn"]
NoLib == [fit |-> Undrawn, predict |-> Undrawn, score |-> Undrawn]

\* predictor.py lines 75-99: tail, format, score, return.
FinishProphet(df, periods, forecast, scoreOut) ==
    LET predictions == PyTail(forecast, periods)
        results     == FormatResults(predictions)
        confidence  == CalculateConfidenceProphet(scoreOut)
    IN  IF confidence.exc # "" THEN HandleException(confidence.exc)
        ELSE Success(results, df, confidence.val)

\* predictor_sarima.py lines 78-114, given the model object self.model
\* holds when fit is called.
FinishSarima(m, ts, periods, lib) ==
    LET fit == SarimaxFit(m, lib.fit)
    IN  IF fit.exc # "" THEN HandleException(fit.exc)
        ELSE LET forecast == SarimaxForecast(fit.val, ts, periods)
             IN  IF forecast.exc # "" THEN HandleException(forecast.exc)
                 ELSE Success(FormatResults(forecast.val), ts,
                              CalculateConfidenceSarima(ts, lib.score).val)

(***************************************************************************)
(* train_and_predict run by itself on a predictor no other call touches,    *)
(* with the library outcomes lib.                                           *)
(***************************************************************************)
TrainAndPredict(v, data, periods, lib) ==
    LET df == PrepareData(data)
    IN  IF df.tag = "raise" THEN HandleException("month must be in 1..12")
        ELSE IF Gate(df) THEN Failure(InsufficientMsg)
        ELSE IF v = "sarima" THEN FinishSarima(SarimaxNew(1, df.rows), df.rows, periods, lib)
        ELSE LET fit == ProphetFit(ProphetNew(1), df.rows, lib.fit)
             IN  IF fit.exc # "" THEN HandleException(fit.exc)
                 ELSE LET future == ProphetMakeFutureDataframe(fit.val, periods)
                      IN  IF future.exc # "" THEN HandleException(future.exc)
                          ELSE LET forecast == ProphetPredict(fit.val, future.val, lib.predict)
                               IN  IF forecast.exc # "" THEN HandleException(forecast.exc)
                                   ELSE FinishProphet(df.rows, periods, forecast.val, lib.score)

(***************************************************************************)
(* State.                                                                   *)
(***************************************************************************)
VARIABLES
    variant,   \* the DemandPredictor class the deployment imports
    workers,   \* the threads serving requests
    db,        \* the 'demandas' collection
    uploads,   \* /upload requests served
    model,     \* predictor.model of the module-level predictor
    req,       \* per thread: the request being served
    frame,     \* per thread: its call of train_and_predict
    resp       \* per thread: the response being sent

vars == <<variant, workers, db, uploads, model, req, frame, resp>>

Threads == {1, 2}

NoRet == [success |-> FALSE, error |-> <<>>]
NoDf == [tag |-> "none", rows |-> <<>>]
NoFrame == [pc |-> "none", data |-> <<>>, periods |-> 0, df |-> NoDf, future |-> <<>>,
            raw |-> <<>>, lib |-> NoLib, ret |-> NoRet]
\* libs: the library outcomes met by the calls behind results (not program
\* state: kept to state properties).
\* products_data: the argument of predict_multiple_products.
Idle == [kind |-> "idle", periods |-> 0, todo |-> <<>>, results |-> <<>>, libs |-> <<>>,
         products_data |-> <<>>]
NoResp == [status |-> 0]

Returned(f, ret) == [f EXCEPT !.pc = "returned", !.ret = ret]

\* train_and_predict up to the gate (lines 48-56): no shared state is read.
Enter(data, periods) ==
    LET df == PrepareData(data)
        f  == [NoFrame EXCEPT !.data = data, !.periods = periods, !.df = df]
    IN  IF df.tag = "raise" THEN Returned(f, HandleException("month must be in 1..12"))
        ELSE IF Gate(df) THEN Returned(f, Failure(InsufficientMsg))
        ELSE [f EXCEPT !.pc = "construct"]

\* A finished call's value is consumed, and a response sent, before any
\* other step is taken: neither touches the store or the predictor.
Settled == \A t \in Threads : frame[t].pc # "returned" /\ resp[t] = NoResp

Free(t) == t \in workers /\ Settled /\ req[t] = Idle

\* One request at a time, on an empty store.
Init ==
    /\ variant \in {"prophet", "sarima"}
    /\ db = EmptyBag
    /\ uploads = 0
    /\ model = NoModel
    /\ req = [t \in Threads |-> Idle]
    /\ frame = [t \in Threads |-> NoFrame]
    /\ resp = [t \in Threads |-> NoResp]
    /\ workers = {1}

\* Two threads (Flask's development server is threaded) serving /predict
\* requests on the store a first upload of FileBoth12 leaves.
InitPar ==
    /\ variant \in {"prophet", "sarima"}
    /\ db = SaveDemandData(EmptyBag, FileBoth12)
    /\ uploads = MaxUploads
    /\ model = NoModel
    /\ req = [t \in Threads |-> Idle]
    /\ frame = [t \in Threads |-> NoFrame]
    /\ resp = [t \in Threads |-> NoResp]
    /\ workers = Threads

(***************************************************************************)
(* Handlers without a forecast.                                             *)
(***************************************************************************)
\* POST /upload
UploadData(t, file) ==
    /\ Free(t)
    /\ uploads < MaxUploads
    /\ db' = SaveDemandData(db, file)
    /\ uploads' = uploads + 1
    /\ UNCHANGED <<variant, workers, model, req, frame, resp>>

\* DELETE /clear-data
ClearAllData(t) ==
    /\ Free(t)
    /\ db # EmptyBag
    /\ db' = DeleteAllData(db)
    /\ UNCHANGED <<variant, workers, uploads, model, req, frame, resp>>

\* `periods < 1 or periods > 12`
PeriodsRejected(periods) == periods < MinPeriods \/ periods > MaxPeriods

\* GET /predict/<producto>?periods=
PredictProduct(t, producto, periods) ==
    /\ Free(t)
    /\ LET historical_data == GetProductData(db, producto)
       IN  IF PeriodsRejected(periods)
           THEN /\ resp' = [resp EXCEPT ![t] = [status |-> 400, error |-> "periods"]]
                /\ UNCHANGED <<req, frame>>
           ELSE IF historical_data = <<>>
           THEN /\ resp' = [resp EXCEPT ![t] = [status |-> 404, error |-> "no data"]]
                /\ UNCHANGED <<req, frame>>
           ELSE /\ req' = [req EXCEPT ![t] = [Idle EXCEPT !.kind = "predict", !.periods = periods,
                                                          !.todo = <<producto>>]]
                /\ frame' = [frame EXCEPT ![t] = Enter(historical_data, periods)]
                /\ UNCHANGED resp
    /\ UNCHANGED <<variant, workers, db, uploads, model>>

\* GET /predict-all?periods= up to the loop
PredictAllProducts(t, periods) ==
    /\ Free(t)
    /\ LET products == GetAllProducts(db)
       IN  IF products = <<>>
           THEN /\ resp' = [resp EXCEPT ![t] = [status |-> 404, error |-> "no products"]]
                /\ UNCHANGED req
           ELSE /\ req' = [req EXCEPT ![t] = [Idle EXCEPT !.kind = "predict_all",
                                                          !.periods = periods, !.todo = products]]
                /\ UNCHANGED resp
    /\ UNCHANGED <<variant, workers, db, uploads, model, frame>>

\* The loop of /predict-all: the next product's data, and the call.
PredictAllNext(t) ==
    /\ t \in workers /\ Settled
    /\ req[t].kind = "predict_all" /\ frame[t].pc = "none" /\ req[t].todo # <<>>
    /\ frame' = [frame EXCEPT ![t] = Enter(GetProductData(db, Head(req[t].todo)), req[t].periods)]
    /\ UNCHANGED <<variant, workers, db, uploads, model, req, resp>>

(***************************************************************************)
(* train_and_predict past the gate, one step per access to self.model.      *)
(***************************************************************************)
At(t, pc) == t \in workers /\ Settled /\ frame[t].pc = pc

ConstructedOnce(old, v, owner, ts) ==
    IF old.kind # "none" THEN old
    ELSE IF v = "sarima" THEN SarimaxNew(owner, ts) ELSE ProphetNew(owner)

\* The object the call assigns to self.model, whatever self.model held (old).
Constructed(old, v, owner, ts) ==
    IF v = "sarima" THEN SarimaxNew(owner, ts) ELSE ProphetNew(owner)

\* self.model = Prophet(...)  /  self.model = SARIMAX(ts, ...)
Construct(t) ==
    /\ At(t, "construct")
    /\ model' = Constructed(model, variant, t, frame[t].df.rows)
    /\ frame' = [frame EXCEPT ![t].pc = "fit"]
    /\ UNCHANGED <<variant, workers, db, uploads, req, resp>>

\* self.model.fit(df)
FitProphet(t) ==
    /\ At(t, "fit") /\ variant = "prophet"
    /\ \E out \in FitOutcomes :
         LET fit == ProphetFit(model, frame[t].df.rows, out)
             f   == [frame[t] EXCEPT !.lib.fit = out]
         IN  IF fit.exc # ""
             THEN /\ frame' = [frame EXCEPT ![t] = Returned(f, HandleException(fit.exc))]
                  /\ UNCHANGED model
             ELSE /\ frame' = [frame EXCEPT ![t] = [f EXCEPT !.pc = "future"]]
                  /\ model' = fit.val
    /\ UNCHANGED <<variant, workers, db, uploads, req, resp>>

\* future = self.model.make_future_dataframe(periods=periods, freq='MS')
MakeFuture(t) ==
    /\ At(t, "future")
    /\ LET future == ProphetMakeFutureDataframe(model, frame[t].periods)
       IN  frame' = [frame EXCEPT ![t] =
                       IF future.exc # "" THEN Returned(frame[t], HandleException(future.exc))
                       ELSE [frame[t] EXCEPT !.pc = "predict", !.future = future.val]]
    /\ UNCHANGED <<variant, workers, db, uploads, model, req, resp>>

\* forecast = self.model.predict(future), and the rest of the call
Predict(t) ==
    /\ At(t, "predict")
    /\ \E po \in PredictOutcomes :
         LET forecast == ProphetPredict(model, frame[t].future, po)
             f        == [frame[t] EXCEPT !.lib.predict = po]
         IN  IF forecast.exc # ""
             THEN frame' = [frame EXCEPT ![t] = Returned(f, HandleException(forecast.exc))]
             ELSE \E sc \in ScoreOutcomesProphet :
                    frame' = [frame EXCEPT ![t] =
                       Returned([f EXCEPT !.lib.score = sc,
                                          !.raw = PyTail(forecast.val, f.periods)],
                                FinishProphet(f.df.rows, f.periods, forecast.val, sc))]
    /\ UNCHANGED <<variant, workers, db, uploads, model, req, resp>>

\* model_fit = self.model.fit(disp=False), and the rest of the call
FitSarima(t) ==
    /\ At(t, "fit") /\ variant = "sarima"
    /\ \E out \in FitOutcomes :
         LET fit == SarimaxFit(model, out)
             fc  == IF fit.exc # "" THEN fit
                    ELSE SarimaxForecast(fit.val, frame[t].df.rows, frame[t].periods)
             f   == [frame[t] EXCEPT !.lib.fit = out]
         IN  IF fc.exc # ""
             THEN frame' = [frame EXCEPT ![t] =
                       Returned(f, FinishSarima(model, f.df.rows, f.periods, f.lib))]
             ELSE \E sc \in ScoreOutcomesSarima :
                    frame' = [frame EXCEPT ![t] =
                       Returned([f EXCEPT !.lib.score = sc, !.raw = fc.val],
                                FinishSarima(model, f.df.rows, f.periods, [f.lib EXCEPT !.score = sc]))]
    /\ UNCHANGED <<variant, workers, db, uploads, model, req, resp>>

(***************************************************************************)
(* Back in the handlers.                                                    *)
(***************************************************************************)
Escaped(ret) == "raised" \in DOMAIN ret

\* predict_product, lines 157-170
PredictRespond(t) ==
    /\ t \in workers /\ req[t].kind = "predict" /\ frame[t].pc = "returned"
    /\ LET result == frame[t].ret
       IN  resp' = [resp EXCEPT ![t] =
                      IF Escaped(result) THEN [status |-> 500, error |-> result.error]
                      ELSE IF result.success
                      THEN [status |-> 200, producto |-> Head(req[t].todo),
                            prediccion |-> result.predictions, historico |-> result.historical,
                            confianza |-> result.confidence,
                            total_meses_historicos |-> result.total_data_points]
                      ELSE [status |-> 400, error |-> result.error]]
    /\ req' = [req EXCEPT ![t] = Idle]
    /\ frame' = [frame EXCEPT ![t] = NoFrame]
    /\ UNCHANGED <<variant, workers, db, uploads, model>>

\* predict_all_products, lines 190-200: results[product] = prediction, and
\* the response after the last product.
PredictAllCollect(t) ==
    /\ t \in workers /\ req[t].kind = "predict_all" /\ frame[t].pc = "returned"
    /\ LET result  == frame[t].ret
           results == (Head(req[t].todo) :> result) @@ req[t].results
           libs    == (Head(req[t].todo) :> frame[t].lib) @@ req[t].libs
           todo    == Tail(req[t].todo)
       IN  IF Escaped(result)
           THEN /\ resp' = [resp EXCEPT ![t] = [status |-> 500, error |-> result.error]]
                /\ req' = [req EXCEPT ![t] = Idle]
           ELSE IF todo = <<>>
           THEN /\ resp' = [resp EXCEPT ![t] = [status |-> 200, predicciones |-> results,
                                                total_productos |-> Cardinality(DOMAIN results),
                                                periods |-> req[t].periods, libs |-> libs]]
                /\ req' = [req EXCEPT ![t] = Idle]
           ELSE /\ req' = [req EXCEPT ![t].todo = todo, ![t].results = results,
                                       ![t].libs = libs]
                /\ UNCHANGED resp
    /\ frame' = [frame EXCEPT ![t] = NoFrame]
    /\ UNCHANGED <<variant, workers, db, uploads, model>>

(***************************************************************************)
(* DemandPredictor.predict_multiple_products(products_data, periods): the   *)
(* caller hands over the record lists itself, in the order it has them.     *)
(***************************************************************************)
Reverse(s) == [i \in 1..Len(s) |-> s[Len(s) + 1 - i]]
\* The first record moved to the end.
Rotate(s) == IF s = <<>> THEN <<>> ELSE Tail(s) \o <<Head(s)>>

\* Record lists: twelve months; thirteen records over twelve months; eleven
\* months; twelve months and a record of month 13.
RecordLists ==
    { GetProductData(SaveDemandData(EmptyBag, FileBoth12), "ARROZ"),
      GetProductData(SaveDemandData(EmptyBag, FileBoth12 \cup FileArrozNovAgain), "ARROZ"),
      GetProductData(SaveDemandData(EmptyBag, FileArroz11), "ARROZ"),
      GetProductData(SaveDemandData(EmptyBag, FileBoth12 \cup FileArrozBadMonth), "ARROZ") }

Entry(product, data) == [product |-> product, data |-> data]

\* {"A": records, "B": the same records in the same or in another order}
ProductsDataInputs ==
    UNION { { <<Entry("A", r), Entry("B", r)>>,
              <<Entry("A", r), Entry("B", Reverse(r))>>,
              <<Entry("A", Rotate(r)), Entry("B", Reverse(r))>> } : r \in RecordLists }

\* predict_multiple_products up to the loop
PredictMultipleProducts(t, products_data, periods) ==
    /\ Free(t)
    /\ req' = [req EXCEPT ![t] = [Idle EXCEPT !.kind = "predict_multiple", !.periods = periods,
                                              !.todo = products_data,
                                              !.products_data = products_data]]
    /\ UNCHANGED <<variant, workers, db, uploads, model, frame, resp>>

\* for product, data in products_data.items(): self.train_and_predict(data, periods)
PredictMultipleNext(t) ==
    /\ t \in workers /\ Settled
    /\ req[t].kind = "predict_multiple" /\ frame[t].pc = "none" /\ req[t].todo # <<>>
    /\ frame' = [frame EXCEPT ![t] = Enter(Head(req[t].todo).data, req[t].periods)]
    /\ UNCHANGED <<variant, workers, db, uploads, model, req, resp>>

\* results[product] = prediction, and `return results` after the last one;
\* nothing here catches an exception.
PredictMultipleCollect(t) ==
    /\ t \in workers /\ req[t].kind = "predict_multiple" /\ frame[t].pc = "returned"
    /\ LET result  == frame[t].ret
           results == (Head(req[t].todo).product :> result) @@ req[t].results
           libs    == (Head(req[t].todo).product :> frame[t].lib) @@ req[t].libs
           todo    == Tail(req[t].todo)
       IN  req' = [req EXCEPT ![t] =
                     IF Escaped(result) THEN [@ EXCEPT !.kind = "predict_multiple_raised"]
                     ELSE [@ EXCEPT !.todo = todo, !.results = results, !.libs = libs,
                                    !.kind = IF todo = <<>> THEN "predict_multiple_returned"
                                             ELSE "predict_multiple"]]
    /\ frame' = [frame EXCEPT ![t] = NoFrame]
    /\ UNCHANGED <<variant, workers, db, uploads, model, resp>>

\* The response leaves the server.
Deliver(t) ==
    /\ t \in workers /\ resp[t] # NoResp
    /\ resp' = [resp EXCEPT ![t] = NoResp]
    /\ UNCHANGED <<variant, workers, db, uploads, model, req, frame>>

Next ==
    \E t \in Threads :
        \/ \E file \in Files : UploadData(t, file)
        \/ ClearAllData(t)
        \/ \E producto \in {Products[i] : i \in 1..Len(Products)}, periods \in PeriodsInputs :
               PredictProduct(t, producto, periods)
        \/ \E periods \in PeriodsInputs : PredictAllProducts(t, periods)
        \/ PredictAllNext(t)
        \/ Construct(t)
        \/ FitProphet(t)
        \/ MakeFuture(t)
        \/ Predict(t)
        \/ FitSarima(t)
        \/ PredictRespond(t)
        \/ PredictAllCollect(t)
        \/ Deliver(t)

Spec == Init /\ [][Next]_vars

NextPar ==
    \E t \in Threads :
        \/ \E producto \in {Products[i] : i \in 1..Len(Products)}, periods \in PeriodsInputs :
               PredictProduct(t, producto, periods)
        \/ Construct(t)
        \/ FitProphet(t)
        \/ MakeFuture(t)
        \/ Predict(t)
        \/ FitSarima(t)
        \/ PredictRespond(t)
        \/ Deliver(t)

SpecPar == InitPar /\ [][NextPar]_vars

\* A caller of predict_multiple_products on a predictor of its own.
InitMultiple ==
    /\ variant \in {"prophet", "sarima"}
    /\ db = EmptyBag
    /\ uploads = MaxUploads
    /\ model = NoModel
    /\ req = [t \in Threads |-> Idle]
    /\ frame = [t \in Threads |-> NoFrame]
    /\ resp = [t \in Threads |-> NoResp]
    /\ workers = {1}

NextMultiple ==
    \E t \in Threads :
        \/ \E products_data \in ProductsDataInputs, periods \in PeriodsInputs :
               PredictMultipleProducts(t, products_data, periods)
        \/ PredictMultipleNext(t)
        \/ Construct(t)
        \/ FitProphet(t)
        \/ MakeFuture(t)
        \/ Predict(t)
        \/ FitSarima(t)
        \/ PredictMultipleCollect(t)

SpecMultiple == InitMultiple /\ [][NextMultiple]_vars

\* Fitted parameters around zero: point forecasts from -0.034 to 0.020 and
\* intervals of half-width 0 to 0.025 on a history ending at 0.
RawParamsNearZero ==
    {[base |-> b, slope |-> sl, width |-> w] :
        b \in -20..20, sl \in {0, -7}, w \in {0, 1, 4, 5, 6, 9, 15, 25}}

\* The records GET /predict/MAIZ reads from the store an upload of
\* FileBoth12 leaves.
RecordsMaiz == GetProductData(SaveDemandData(EmptyBag, FileBoth12), "MAIZ")

\* A call of the Prophet variant on RecordsMaiz at self.model.predict, the
\* fit having given params: self.model and the call's frame.
AtPredict(periods, params) ==
    LET out    == [tag |-> "ok", params |-> params]
        m      == [ProphetNew(1) EXCEPT !.fitted = TRUE, !.history = PrepareData(RecordsMaiz).rows,
                                        !.params = params]
        future == ProphetMakeFutureDataframe(m, periods).val
    IN  [model |-> m,
         frame |-> [NoFrame EXCEPT !.pc = "predict", !.data = RecordsMaiz, !.periods = periods,
                                   !.df = PrepareData(RecordsMaiz), !.future = future,
                                   !.lib.fit = out]]

\* GET /predict/MAIZ?periods=1 or 2, Prophet variant, at the call of
\* self.model.predict: the fit has given parameters around zero.
InitRaw ==
    /\ variant = "prophet"
    /\ db = SaveDemandData(EmptyBag, FileBoth12)
    /\ uploads = MaxUploads
    /\ workers = {1}
    /\ resp = [t \in Threads |-> NoResp]
    /\ \E params \in RawParamsNearZero, periods \in {1, 2} :
         /\ model = AtPredict(periods, params).model
         /\ frame = [t \in Threads |-> IF t = 1 THEN AtPredict(periods, params).frame ELSE NoFrame]
         /\ req = [t \in Threads |->
                     IF t = 1 THEN [Idle EXCEPT !.kind = "predict", !.periods = periods,
                                                !.todo = <<"MAIZ">>]
                     ELSE Idle]

NextRaw ==
    \E t \in Threads :
        \/ Predict(t)
        \/ PredictRespond(t)
        \/ Deliver(t)

SpecRaw == InitRaw /\ [][NextRaw]_vars

(***************************************************************************)
(* Properties.                                                              *)
(***************************************************************************)
Done(t) == frame[t].pc = "returned"

\* The series the Normalizer built from the records of call t.
Series(t) == frame[t].df

\* An exception was raised on the way of call t: out of the library
\* (fit, predict, forecast with no step to take) or, in the Prophet variant,
\* out of the scorer.
LibraryRaised(t) ==
    \/ frame[t].lib.fit.tag = "raise"
    \/ variant = "prophet" /\ frame[t].lib.predict.tag = "raise"
    \/ variant = "prophet" /\ frame[t].lib.score.tag = "raise"
    \/ variant = "sarima" /\ frame[t].periods < 1

IsExceptionFailure(ret) ==
    /\ DOMAIN ret = {"success", "error"}
    /\ ~ret.success
    /\ Len(ret.error) = 2
    /\ ret.error[1] = "Error en prediccion: "

\* C1 as stated: a series of fewer than 12 points gives the 12-months
\* failure, and a series of exactly 12 points gives success.
C1_AsStated ==
    \A t \in Threads :
        Done(t) /\ Series(t).tag # "raise" =>
            /\ Len(Series(t).rows) < 12 => frame[t].ret = Failure(InsufficientMsg)
            /\ Len(Series(t).rows) = 12 => frame[t].ret.success

\* C1 (amended): a series of fewer than 12 points (the empty input included)
\* gives the 12-months failure; a series of exactly 12 points never does: the
\* call returns success unless an exception is raised while fitting,
\* predicting or scoring, and then a failure "Error en prediccion: ...".
C1_Gate ==
    \A t \in Threads :
        Done(t) /\ Series(t).tag # "raise" =>
            /\ Len(Series(t).rows) < 12 => frame[t].ret = Failure(InsufficientMsg)
            /\ Len(Series(t).rows) = 12 =>
                   /\ frame[t].ret # Failure(InsufficientMsg)
                   /\ IF LibraryRaised(t) THEN IsExceptionFailure(frame[t].ret)
                      ELSE frame[t].ret.success

\* A call on exactly twelve months has succeeded.
C1_Witness ==
    \E t \in Threads :
        Done(t) /\ Series(t).tag = "ok" /\ Len(Series(t).rows) = 12 /\ frame[t].ret.success

\* C2: in every successful forecast, every point has prediccion,
\* limite_inferior and limite_superior >= 0, whatever the raw values' signs.
C2_NonNegative ==
    \A t \in Threads :
        Done(t) /\ frame[t].ret.success =>
            \A i \in 1..Len(frame[t].ret.predictions) :
                /\ frame[t].ret.predictions[i].prediccion >= 0
                /\ frame[t].ret.predictions[i].limite_inferior >= 0
                /\ frame[t].ret.predictions[i].limite_superior >= 0

\* A successful forecast whose raw point estimate and lower bound were
\* negative for some month, the raw upper bound positive.
C2_Witness ==
    \E t \in Threads :
        /\ Done(t) /\ frame[t].ret.success
        /\ Len(frame[t].raw) = Len(frame[t].ret.predictions)
        /\ \E i \in 1..Len(frame[t].raw) :
              /\ frame[t].raw[i].yhat < 0 /\ frame[t].raw[i].yhat_lower < 0
              /\ frame[t].raw[i].yhat_upper > 0
              /\ frame[t].ret.predictions[i].prediccion = 0
              /\ frame[t].ret.predictions[i].limite_inferior = 0

Label(e) == ToDatetime(e.anio, e.mes)

\* C3 as stated: a successful forecast for periods p has exactly p
\* predictions, labelled with the consecutive months that follow the last
\* historical month.
C3_AsStated ==
    \A t \in Threads :
        Done(t) /\ frame[t].ret.success =>
            /\ Len(frame[t].ret.predictions) = frame[t].periods
            /\ \A i \in 1..Len(frame[t].ret.predictions) :
                  Label(frame[t].ret.predictions[i]) = LastDs(frame[t].df.rows) + i

Confidences ==
    {frame[t].ret.confidence : t \in {u \in Threads : Done(u) /\ frame[u].ret.success}}

\* C4 as stated: the score lies in [0,100] and the level follows from the
\* reported score: Alta iff score > 70, Media iff 40 < score <= 70, Baja iff
\* score <= 40.
C4_AsStated ==
    \A c \in Confidences :
        /\ c.score >= 0 /\ c.score <= 10000
        /\ c.level = "Alta" <=> c.score > 7000
        /\ c.level = "Media" <=> (c.score > 4000 /\ c.score <= 7000)
        /\ c.level = "Baja" <=> c.score <= 4000

BatchResponses ==
    {resp[t] : t \in {u \in Threads : resp[u].status = 200 /\ "predicciones" \in DOMAIN resp[u]}}

\* C5: the batch response has one key per product of the store, and each
\* product's entry is what train_and_predict gives on that product's records
\* alone (same periods, same library outcomes), whatever the other products
\* and whatever they left in predictor.model.
C5_BatchIndependent ==
    \A r \in BatchResponses :
        /\ DOMAIN r.predicciones = {d.producto : d \in BagToSet(db)}
        /\ r.total_productos = Cardinality({d.producto : d \in BagToSet(db)})
        /\ \A p \in DOMAIN r.predicciones :
              r.predicciones[p] = TrainAndPredict(variant, GetProductData(db, p), r.periods, r.libs[p])

\* A batch over two products, one entry a success and one a failure.
C5_Witness ==
    \E r \in BatchResponses :
        /\ Cardinality(DOMAIN r.predicciones) = 2
        /\ \E p, q \in DOMAIN r.predicciones :
              r.predicciones[p].success /\ ~r.predicciones[q].success

\* C6 as stated: with calls running in parallel, every call's result is the
\* result of the same call run alone.
C6_AsStated ==
    \A t \in Threads :
        Done(t) =>
            frame[t].ret = TrainAndPredict(variant, frame[t].data, frame[t].periods, frame[t].lib)

ResultKeys == {"predictions", "historical", "confidence", "total_data_points"}

\* C7: no call of train_and_predict ends by raising; every returned value
\* has a success flag, true exactly when predictions, historical, confidence
\* and total_data_points are present; a normalization error, a short history
\* and every exception out of fit or predict (and, in the Prophet variant,
\* out of the scorer) give {success: false, error}.
C7_TaggedResult ==
    \A t \in Threads :
        Done(t) =>
            /\ ~Escaped(frame[t].ret)
            /\ "success" \in DOMAIN frame[t].ret
            /\ frame[t].ret.success <=> ResultKeys \subseteq DOMAIN frame[t].ret
            /\ frame[t].ret.success <=> ResultKeys \cap DOMAIN frame[t].ret # {}
            /\ ~frame[t].ret.success => DOMAIN frame[t].ret = {"success", "error"}
            /\ (Series(t).tag = "raise" \/ Gate(Series(t)) \/ LibraryRaised(t)) =>
                   ~frame[t].ret.success

\* A call ended by an exception out of the library returned the failure.
C7_Witness ==
    \E t \in Threads :
        Done(t) /\ frame[t].lib.fit.tag = "raise" /\ IsExceptionFailure(frame[t].ret)

\* C8 as stated: when the scorer raises, the forecast still succeeds and
\* carries {score: 50, level: Media, mae: 0}.
C8_AsStated ==
    \A t \in Threads :
        Done(t) /\ frame[t].lib.score.tag = "raise" =>
            /\ frame[t].ret.success
            /\ frame[t].ret.confidence = DefaultConfidence

\* C9 as stated: every call of train_and_predict made by a handler has
\* periods in [1,12].
C9_AsStated ==
    \A t \in Threads :
        frame[t].pc # "none" => (frame[t].periods >= 1 /\ frame[t].periods <= 12)

StrictlyIncreasing(rows) == \A i \in 1..(Len(rows) - 1) : rows[i].ds < rows[i + 1].ds
NonDecreasing(rows) == \A i \in 1..(Len(rows) - 1) : rows[i].ds <= rows[i + 1].ds
DistinctMonths(data) ==
    \A i, j \in 1..Len(data) :
        i # j => <<data[i].anio, data[i].mes>> # <<data[j].anio, data[j].mes>>

\* C10 as stated: the series built for a call is strictly increasing by
\* calendar month.
C10_AsStated ==
    \A t \in Threads : frame[t].pc # "none" => StrictlyIncreasing(frame[t].df.rows)

\* C10 (amended): the series is non-decreasing by calendar month, of the
\* length of the records read; it is strictly increasing exactly when no two
\* stored records of the product share a calendar month.
C10_Ordered ==
    \A t \in Threads :
        frame[t].pc # "none" /\ Series(t).tag = "ok" =>
            /\ NonDecreasing(frame[t].df.rows)
            /\ Len(frame[t].df.rows) = Len(frame[t].data)
            /\ StrictlyIncreasing(frame[t].df.rows) <=> DistinctMonths(frame[t].data)

\* A series with the same calendar month twice.
C10_Witness ==
    \E t \in Threads :
        /\ frame[t].pc # "none" /\ Series(t).tag = "ok"
        /\ \E i \in 1..(Len(frame[t].df.rows) - 1) :
              frame[t].df.rows[i].ds = frame[t].df.rows[i + 1].ds

MultipleReturns ==
    {req[t] : t \in {u \in Threads : req[u].kind = "predict_multiple_returned"}}

DataOf(r, p) == (CHOOSE e \in {r.products_data[i] : i \in 1..Len(r.products_data)} : e.product = p).data

Count(s, x) == Cardinality({i \in 1..Len(s) : s[i] = x})
\* b is a permutation of a.
SameRecords(a, b) ==
    /\ Len(a) = Len(b)
    /\ \A i \in 1..Len(a) : Count(a, a[i]) = Count(b, a[i])

Labels(entries) == [i \in 1..Len(entries) |-> Label(entries[i])]

\* C11: for two orders of the same records and the same periods (the library
\* behaving the same on both), train_and_predict returns the same
\* success/failure tag and, on success, the same number of predictions, the
\* same prediction month labels and the same historical month labels.
C11_OrderIndependent ==
    \A r \in MultipleReturns :
        \A p, q \in DOMAIN r.results :
            (SameRecords(DataOf(r, p), DataOf(r, q)) /\ r.libs[p] = r.libs[q]) =>
                /\ r.results[p].success = r.results[q].success
                /\ r.results[p].success =>
                      /\ Len(r.results[p].predictions) = Len(r.results[q].predictions)
                      /\ Labels(r.results[p].predictions) = Labels(r.results[q].predictions)
                      /\ Labels(r.results[p].historical) = Labels(r.results[q].historical)

\* Two successful forecasts of the same records given in different orders,
\* with at least one predicted month.
C11_Witness ==
    \E r \in MultipleReturns :
        \E p, q \in DOMAIN r.results :
            /\ DataOf(r, p) # DataOf(r, q)
            /\ SameRecords(DataOf(r, p), DataOf(r, q)) /\ r.libs[p] = r.libs[q]
            /\ r.results[p].success /\ r.results[q].success
            /\ Len(r.results[p].predictions) > 0

\* The (ds, y) pair of each input record, in input order.
RowsOf(data) ==
    [i \in 1..Len(data) |-> [ds |-> ToDatetime(data[i].anio, data[i].mes), y |-> data[i].demanda]]

\* C12: the series is a permutation of the input records' (month, demand)
\* pairs, non-decreasing by month; the call fails at the gate exactly when
\* there are fewer than 12 records, whatever the number of distinct months;
\* on success the historical echo and total_data_points have the length of
\* the input.
C12_NoDropNoAggregate ==
    \A t \in Threads :
        Done(t) /\ Series(t).tag = "ok" =>
            /\ SameRecords(SubSeq(RowsOf(frame[t].data), 1, Len(frame[t].data)), Series(t).rows)
            /\ NonDecreasing(Series(t).rows)
            /\ frame[t].ret = Failure(InsufficientMsg) <=> Len(frame[t].data) < MIN_DATA_POINTS
            /\ frame[t].ret.success =>
                  /\ Len(frame[t].ret.historical) = Len(frame[t].data)
                  /\ frame[t].ret.total_data_points = Len(frame[t].data)

\* A successful forecast on 12 records of fewer than 12 distinct months.
C12_Witness ==
    \E t \in Threads :
        /\ Done(t) /\ frame[t].ret.success
        /\ Len(frame[t].data) = MIN_DATA_POINTS
        /\ Cardinality({Series(t).rows[i].ds : i \in 1..Len(Series(t).rows)}) < MIN_DATA_POINTS
        /\ frame[t].ret.total_data_points = MIN_DATA_POINTS

RawOrdered(row) == row.yhat_lower <= row.yhat /\ row.yhat <= row.yhat_upper

\* C13 as stated: where the raw output of a month is ordered and negative,
\* flooring each value separately has produced a ForecastPoint with
\* limite_inferior > prediccion.
C13_AsStated ==
    \A t \in Threads :
        Done(t) /\ frame[t].ret.success =>
            \A i \in 1..Len(frame[t].raw) :
                (RawOrdered(frame[t].raw[i]) /\ frame[t].raw[i].yhat < 0) =>
                    frame[t].ret.predictions[i].limite_inferior > frame[t].ret.predictions[i].prediccion

\* C13 (amended): when the raw output of a month satisfies lower <= point <=
\* upper, the ForecastPoint built from it satisfies limite_inferior <=
\* prediccion <= limite_superior: flooring at zero and rounding keep the order.
C13_OrderKept ==
    \A t \in Threads :
        Done(t) /\ frame[t].ret.success =>
            /\ Len(frame[t].raw) = Len(frame[t].ret.predictions)
            /\ \A i \in 1..Len(frame[t].raw) :
                  RawOrdered(frame[t].raw[i]) =>
                      /\ frame[t].ret.predictions[i].limite_inferior <= frame[t].ret.predictions[i].prediccion
                      /\ frame[t].ret.predictions[i].prediccion <= frame[t].ret.predictions[i].limite_superior

\* A month whose raw lower bound and point estimate are negative and
\* different: both are reported as 0.
C13_Witness ==
    \E t \in Threads :
        /\ Done(t) /\ frame[t].ret.success
        /\ \E i \in 1..Len(frame[t].raw) :
              /\ frame[t].raw[i].yhat_lower < frame[t].raw[i].yhat /\ frame[t].raw[i].yhat < 0
              /\ frame[t].raw[i].yhat <= frame[t].raw[i].yhat_upper
              /\ frame[t].ret.predictions[i].limite_inferior = 0
              /\ frame[t].ret.predictions[i].prediccion = 0

====
